---- MODULE Spec2Model ----
(***************************************************************************)
(* Verification model of four pieces of Vayesta:                           *)
(*   - ClusterSolver.optimize_cpt (vayesta/solver/solver.py): the kernel   *)
(*     that searches the fragment chemical potential,                      *)
(*   - scf_with_mpi (vayesta/mpi/scf.py),                                  *)
(*   - get_solver_class (vayesta/solver/__init__.py),                      *)
(*   - IAO_Fragmentation.get_labels (vayesta/core/fragmentation/iao.py).   *)
(* Each piece has its own specification over its own variables; the other  *)
(* pieces' variables stay at their idle values.                            *)
(***************************************************************************)
EXTENDS Integers, Sequences, FiniteSets, TLC

VARIABLES
    \* ---- optimize_cpt: arguments of optimize_cpt and of the kernel call
    pc, nelectron, cpt_guess, atol, rtol, cpt_radius, eris_arg,
    \* ---- optimize_cpt: locals of kernel (solver.py:195-204, 276, 278); the
    \* counter iterations, which only the log reads, is left out
    result, err, cpt_opt, init_guess, err0, eris, bounds, ntry,
    \* ---- optimize_cpt: the solver object and the last solver run
    converged, results, ne_frag, v_ext_cpt,
    \* ---- optimize_cpt: state of the running scipy.optimize.brentq call
    brent,
    \* ---- optimize_cpt: how the kernel call ended
    outcome, retval,
    \* ---- optimize_cpt: history of the call
    n_get_eris, eris_runs, runs0, shortcut, failure,
    \* ---- scf_with_mpi: the root rank, and per rank: the mean-field object,
    \* the position in mpi_kernel, its local res and its returned value
    mpi_rank, mf, rank_pc, res, ret,
    \* ---- scf_with_mpi: the communicator: barriers entered per rank, the
    \* values the root has broadcast, broadcasts completed per rank
    arrived, bcast_sent, nbcast,
    \* ---- scf_with_mpi: history: calls completed and SCF runs made per rank,
    \* and what the root held after each of its SCF runs
    calls, scf_runs, scf_out,
    \* ---- get_solver_class: the argument, the position, the class returned
    solver, cls_pc, solver_class,
    \* ---- get_labels: atom coordinates of mol and refmol, refmol's labels,
    \* the position, the labels returned
    mol_coords, ref_coords, iao_labels_refmol, lbl_pc, iao_labels

cptVars == <<pc, nelectron, cpt_guess, atol, rtol, cpt_radius, eris_arg,
             result, err, cpt_opt, init_guess, err0, eris, bounds, ntry,
             converged, results, ne_frag, v_ext_cpt, brent, outcome, retval,
             n_get_eris, eris_runs, runs0, shortcut, failure>>

mpiVars == <<mpi_rank, mf, rank_pc, res, ret, arrived, bcast_sent, nbcast,
             calls, scf_runs, scf_out>>

clsVars == <<solver, cls_pc, solver_class>>

lblVars == <<mol_coords, ref_coords, iao_labels_refmol, lbl_pc, iao_labels>>

vars == <<cptVars, mpiVars, clsVars, lblVars>>

-----------------------------------------------------------------------------
(* Bounds of the model *)

\* cpt_guess ranges over -MaxCptGuess..MaxCptGuess whole units
MaxCptGuess == 1
\* cpt_radius ranges over 1..MaxRadius whole units
MaxRadius == 1
\* nelectron ranges over 1..MaxNelectron
MaxNelectron == 1
\* atol and rtol are each one of these numbers of electrons
TolValues == {0, 1}
\* a solver run yields ne_frag within nelectron-MaxErr..nelectron+MaxErr
MaxErr == 1
\* iteration budget of one brentq call (scipy's maxiter)
BrentMaxIter == 2

-----------------------------------------------------------------------------
(* Python values *)

\* Python's None, and a value that is not None
None == <<>>
Some(x) == <<x>>
Val(o) == o[1]

Abs(x) == IF x < 0 THEN -x ELSE x

\* for ntry in range(5)
MaxTriesMut == 5 + 1
MaxTries == 5

\* Chemical potentials are floats; bounds /= 2 and bounds *= 2 are exact on
\* them. One whole unit is 2^MaxTries grid steps, so that every halving the
\* loop can make stays exact on the integer grid.
Unit == 2 ^ MaxTries

\* abs(err) < (atol + rtol*nelectron)
WithinTolMut(e, n, at, rt) == Abs(e) <= at + rt * n
WithinTol(e, n, at, rt) == Abs(e) < at + rt * n

\* if eris is None: eris = self.get_eris()
NeedErisMut(e) == TRUE
NeedEris(e) == e = None

\* lower, upper of the first bracket
FirstBounds(e0, guess, radius) ==
    IF e0 < 0 THEN <<guess, guess + radius>> ELSE <<guess - radius, guess>>

\* bounds *= 2 and bounds /= 2
Doubled(b) == <<2 * b[1], 2 * b[2]>>
Halved(b) == <<b[1] \div 2, b[2] \div 2>>

-----------------------------------------------------------------------------
(* electron_err *)

\* What electron_err(cpt) does when the solver run it may start ends with
\* self.converged = conv and a fragment electron count ne.
ElectronErr(cpt, conv, ne) ==
    IF cpt = 0 /\ err0 # None
    THEN [kind |-> "shortcut", val |-> Val(err0)]
    ELSE IF ~conv
    THEN [kind |-> "ConvergenceError", val |-> 0]
    ELSE IF WithinTol(ne - nelectron, nelectron, atol, rtol)
    THEN [kind |-> "CptFound", val |-> ne - nelectron]
    ELSE [kind |-> "return", val |-> ne - nelectron]

\* The assignments of electron_err(cpt) to the solver and to the nonlocals,
\* for the outcome r == ElectronErr(cpt, conv, ne), with the integrals e.
ElectronErrEffect(cpt, conv, ne, r, e) ==
    IF r.kind = "shortcut"
    THEN /\ shortcut' = TRUE
         /\ UNCHANGED <<converged, results, ne_frag, v_ext_cpt, err, cpt_opt,
                        init_guess, eris_runs, runs0>>
    ELSE /\ shortcut' = FALSE
         /\ v_ext_cpt' = cpt
         /\ results' = Some([cpt |-> cpt, converged |-> conv])
         /\ eris_runs' = eris_runs \cup {e}
         /\ converged' = conv
         /\ IF r.kind = "ConvergenceError"
            THEN UNCHANGED <<ne_frag, err, cpt_opt, init_guess, runs0>>
            ELSE /\ ne_frag' = Some(ne)
                 /\ err' = Some(r.val)
                 /\ runs0' = IF cpt = 0 THEN runs0 \cup {r.val} ELSE runs0
                 /\ IF r.kind = "CptFound"
                    THEN cpt_opt' = Some(cpt) /\ UNCHANGED init_guess
                    ELSE init_guess' = Some(cpt) /\ UNCHANGED cpt_opt

NeFragSet == (nelectron - MaxErr)..(nelectron + MaxErr)

-----------------------------------------------------------------------------
(* The kernel installed by optimize_cpt *)

cptArgs == <<nelectron, cpt_guess, atol, rtol, cpt_radius, eris_arg>>

\* No brentq call is running: its locals do not exist.
BrentIdle == [xpre |-> 0, fpre |-> 0, xcur |-> 0, fcur |-> 0, iter |-> 0]

\* The kernel call ends: it returns rv (o = "return") or raises o.
Finish(o, rv) ==
    /\ pc' = "done"
    /\ outcome' = o
    /\ retval' = rv
    /\ brent' = BrentIdle

\* A brentq attempt ended in except ValueError / except ConvergenceError:
\* the bounds are rescaled and the for loop goes on, or is exhausted and its
\* else branch raises RuntimeError("Could not find chemical potential ...").
AttemptFailed(kind, newbounds) ==
    /\ failure' = kind
    /\ bounds' = newbounds
    /\ ntry' = ntry + 1
    /\ brent' = BrentIdle
    /\ IF ntry + 1 = MaxTries
       THEN Finish("RuntimeError_interval", None)
       ELSE pc' = "brent_a" /\ UNCHANGED <<outcome, retval>>

\* kernel, from its entry to the end of the first run with cpt_guess and the
\* choice of the first bracket.
KernelFirstRun ==
    /\ pc = "start"
    /\ \E conv \in BOOLEAN, ne \in NeFragSet :
        LET need == NeedEris(eris_arg)
            e == IF need THEN Some(<<"computed", n_get_eris + 1>>) ELSE eris_arg
            r == ElectronErr(cpt_guess, conv, ne)
        IN  /\ eris' = e
            /\ n_get_eris' = IF need THEN n_get_eris + 1 ELSE n_get_eris
            /\ ElectronErrEffect(cpt_guess, conv, ne, r, e)
            /\ CASE r.kind = "ConvergenceError" ->
                      /\ Finish("ConvergenceError", None)
                      /\ UNCHANGED <<err0, bounds>>
                 [] r.kind = "CptFound" ->
                      /\ Finish("return", result)
                      /\ UNCHANGED <<err0, bounds>>
                 [] OTHER ->
                      /\ err0' = Some(r.val)
                      /\ bounds' = FirstBounds(r.val, cpt_guess, cpt_radius)
                      /\ pc' = "brent_a"
                      /\ UNCHANGED <<outcome, retval, brent>>
    /\ UNCHANGED <<cptArgs, result, ntry, failure>>
    /\ UNCHANGED <<mpiVars, clsVars, lblVars>>

\* brentq(electron_err, a=bounds[0], b=bounds[1]): the evaluation at a.
BrentqFa ==
    /\ pc = "brent_a"
    /\ \E conv \in BOOLEAN, ne \in NeFragSet :
        LET r == ElectronErr(bounds[1], conv, ne)
        IN  /\ ElectronErrEffect(bounds[1], conv, ne, r, eris)
            /\ CASE r.kind = "CptFound" ->
                      /\ Finish("return", result)
                      /\ UNCHANGED <<bounds, ntry, failure>>
                 [] r.kind = "ConvergenceError" ->
                      AttemptFailed("ConvergenceError", Halved(bounds))
                 [] OTHER ->
                      /\ brent' = [xpre |-> bounds[1], fpre |-> r.val,
                                   xcur |-> bounds[2], fcur |-> 0, iter |-> 0]
                      /\ pc' = "brent_b"
                      /\ UNCHANGED <<bounds, ntry, failure, outcome, retval>>
    /\ UNCHANGED <<cptArgs, result, err0, eris, n_get_eris>>
    /\ UNCHANGED <<mpiVars, clsVars, lblVars>>

\* brentq: the evaluation at b, then the checks made before iterating: a zero
\* at an end point is returned as converged (the kernel then raises
\* RuntimeError "converged ..., but electron error is still ..."), equal
\* signs raise ValueError.
BrentqFb ==
    /\ pc = "brent_b"
    /\ \E conv \in BOOLEAN, ne \in NeFragSet :
        LET r == ElectronErr(bounds[2], conv, ne)
        IN  /\ ElectronErrEffect(bounds[2], conv, ne, r, eris)
            /\ CASE r.kind = "CptFound" ->
                      /\ Finish("return", result)
                      /\ UNCHANGED <<bounds, ntry, failure>>
                 [] r.kind = "ConvergenceError" ->
                      AttemptFailed("ConvergenceError", Halved(bounds))
                 [] OTHER ->
                      IF brent.fpre = 0 \/ r.val = 0
                      THEN /\ Finish("RuntimeError_converged", None)
                           /\ UNCHANGED <<bounds, ntry, failure>>
                      ELSE IF (brent.fpre < 0) = (r.val < 0)
                      THEN AttemptFailed("ValueError", Doubled(bounds))
                      ELSE /\ brent' = [brent EXCEPT !.fcur = r.val]
                           /\ pc' = "brent_iter"
                           /\ UNCHANGED <<bounds, ntry, failure, outcome, retval>>
    /\ UNCHANGED <<cptArgs, result, err0, eris, n_get_eris>>
    /\ UNCHANGED <<mpiVars, clsVars, lblVars>>

\* brentq's loop test: the last value is zero or the bracket is down to the
\* grid's resolution (xtol).
BrentqTolReached ==
    brent.fcur = 0 \/ Abs(brent.xpre - brent.xcur) <= 1

\* brentq returns as converged; res.converged makes the kernel raise.
BrentqConverged ==
    /\ pc = "brent_iter"
    /\ brent.iter < BrentMaxIter
    /\ BrentqTolReached
    /\ Finish("RuntimeError_converged", None)
    /\ UNCHANGED <<cptArgs, result, err, cpt_opt, init_guess, err0, eris,
                   bounds, ntry, converged, results, ne_frag, v_ext_cpt,
                   n_get_eris, eris_runs, runs0, shortcut, failure>>
    /\ UNCHANGED <<mpiVars, clsVars, lblVars>>

\* brentq used up its iterations: it raises RuntimeError("Failed to converge
\* ..."), which no except clause of the kernel catches.
BrentqMaxIter ==
    /\ pc = "brent_iter"
    /\ brent.iter = BrentMaxIter
    /\ Finish("RuntimeError_brentq", None)
    /\ UNCHANGED <<cptArgs, result, err, cpt_opt, init_guess, err0, eris,
                   bounds, ntry, converged, results, ne_frag, v_ext_cpt,
                   n_get_eris, eris_runs, runs0, shortcut, failure>>
    /\ UNCHANGED <<mpiVars, clsVars, lblVars>>

\* One iteration of brentq: a point strictly inside the bracket is evaluated
\* and replaces the end point whose value has its sign. Brent's choice of
\* the point (interpolation or bisection) is taken to be the midpoint.
BrentqStep ==
    /\ pc = "brent_iter"
    /\ brent.iter < BrentMaxIter
    /\ ~BrentqTolReached
    /\ \E conv \in BOOLEAN, ne \in NeFragSet :
        LET x == (brent.xpre + brent.xcur) \div 2
            r == ElectronErr(x, conv, ne)
        IN  /\ ElectronErrEffect(x, conv, ne, r, eris)
            /\ CASE r.kind = "CptFound" ->
                      /\ Finish("return", result)
                      /\ UNCHANGED <<bounds, ntry, failure>>
                 [] r.kind = "ConvergenceError" ->
                      AttemptFailed("ConvergenceError", Halved(bounds))
                 [] OTHER ->
                      /\ brent' = IF r.val = 0 \/ (r.val < 0) = (brent.fcur < 0)
                                  THEN [brent EXCEPT !.xcur = x, !.fcur = r.val,
                                                     !.iter = @ + 1]
                                  ELSE [xpre |-> brent.xcur, fpre |-> brent.fcur,
                                        xcur |-> x, fcur |-> r.val,
                                        iter |-> brent.iter + 1]
                      /\ UNCHANGED <<pc, bounds, ntry, failure, outcome, retval>>
    /\ UNCHANGED <<cptArgs, result, err0, eris, n_get_eris>>
    /\ UNCHANGED <<mpiVars, clsVars, lblVars>>

-----------------------------------------------------------------------------
(* scf_with_mpi: the kernel of a mean-field object wrapped on every rank *)

\* ranks of the communicator: 0..NRanks-1
NRanks == 2
\* calls of the wrapped kernel made on every rank
MaxCalls == 2
\* an SCF run ends with one of the energies 1..MaxEnergy
MaxEnergy == 2

Ranks == 0..(NRanks - 1)

\* if mpi.rank == mpi_rank
RunsScfMut(rank, root) == TRUE
RunsScf(rank, root) == rank = root

\* The attributes mpi_kernel broadcasts after res, in the order of the code;
\* _cderi only if hasattr(self, 'with_df').
BcastOrderMut(with_df) ==
    IF with_df
    THEN <<"res", "cderi", "e_tot", "converged", "mo_energy", "mo_occ", "mo_coeff">>
    ELSE <<"res", "e_tot", "converged", "mo_energy", "mo_occ", "mo_coeff">>
BcastOrder(with_df) ==
    IF with_df
    THEN <<"res", "cderi", "converged", "e_tot", "mo_energy", "mo_occ", "mo_coeff">>
    ELSE <<"res", "converged", "e_tot", "mo_energy", "mo_occ", "mo_coeff">>

\* The mean-field object of a rank before any SCF run. Every attribute that
\* is broadcast holds None or a pair of the attribute's name and its value,
\* so that an object received into another attribute can be told apart.
MfNew(with_df) ==
    [with_df |-> with_df, auxcell |-> None, cderi |-> None,
     converged |-> <<"converged", FALSE>>, e_tot |-> <<"e_tot", 0>>,
     mo_energy |-> None, mo_occ |-> None, mo_coeff |-> None]

\* kernel_orig on the mean-field object m: an SCF run that ends with
\* converged = conv and the energy e.
ScfRun(m, conv, e) ==
    [m EXCEPT !.converged = <<"converged", conv>>,
              !.e_tot = <<"e_tot", e>>,
              !.mo_energy = Some(<<"mo_energy", e>>),
              !.mo_occ = Some(<<"mo_occ", e>>),
              !.mo_coeff = Some(<<"mo_coeff", e>>),
              !.auxcell = IF m.with_df THEN Some("auxcell") ELSE @,
              !.cderi = IF m.with_df THEN Some(<<"cderi", e>>) ELSE @]

\* if hasattr(self, 'with_df') and self.with_df.auxcell is None:
\*     self.with_df.build(with_j3c=False)
BuildAux(m) ==
    IF m.with_df /\ m.auxcell = None
    THEN [m EXCEPT !.auxcell = Some("auxcell")]
    ELSE m

\* mpi.world.bcast(obj, root=mpi_rank) on a rank other than the root: the
\* rank's own object is replaced by the one the root sent.
BcastRecvMut(own, sent) == own
BcastRecv(own, sent) == sent

\* mpi_kernel on rank r, from its entry until it waits in mpi.world.barrier().
MpiKernelEnter(r) ==
    /\ rank_pc[r] = "idle"
    /\ calls[r] < MaxCalls
    /\ IF RunsScf(r, mpi_rank)
       THEN \E conv \in BOOLEAN, e \in 1..MaxEnergy :
              LET m == ScfRun(mf[r], conv, e)
                  v == Some(<<"kernel_orig", e>>)
              IN  /\ mf' = [mf EXCEPT ![r] = m]
                  /\ res' = [res EXCEPT ![r] = v]
                  /\ scf_runs' = [scf_runs EXCEPT ![r] = @ + 1]
                  /\ scf_out' = IF r = mpi_rank
                                THEN Append(scf_out, [mf |-> m, res |-> v])
                                ELSE scf_out
       ELSE /\ mf' = [mf EXCEPT ![r] = BuildAux(mf[r])]
            /\ res' = [res EXCEPT ![r] = None]
            /\ UNCHANGED <<scf_runs, scf_out>>
    /\ arrived' = [arrived EXCEPT ![r] = @ + 1]
    /\ rank_pc' = [rank_pc EXCEPT ![r] = "barrier"]
    /\ UNCHANGED <<mpi_rank, ret, bcast_sent, nbcast, calls>>
    /\ UNCHANGED <<cptVars, clsVars, lblVars>>

\* mpi.world.barrier() returns on rank r: every rank has entered it.
MpiBarrier(r) ==
    /\ rank_pc[r] = "barrier"
    /\ \A q \in Ranks : arrived[q] >= arrived[r]
    /\ rank_pc' = [rank_pc EXCEPT ![r] = "res"]
    /\ UNCHANGED <<mpi_rank, mf, res, ret, arrived, bcast_sent, nbcast, calls,
                   scf_runs, scf_out>>
    /\ UNCHANGED <<cptVars, clsVars, lblVars>>

\* One bcast of mpi_kernel on rank r, and the return after the last one. The
\* root sends its object; another rank waits for the root's send that matches
\* its own position in the sequence of collectives.
MpiBcast(r) ==
    /\ rank_pc[r] \notin {"idle", "barrier"}
    /\ r # mpi_rank => Len(bcast_sent) > nbcast[r]
    /\ LET f == rank_pc[r]
           order == BcastOrder(mf[r].with_df)
           k == CHOOSE j \in 1..Len(order) : order[j] = f
           own == IF f = "res" THEN res[r] ELSE mf[r][f]
           v == IF r = mpi_rank THEN own
                ELSE BcastRecv(own, bcast_sent[nbcast[r] + 1])
       IN  /\ bcast_sent' = IF r = mpi_rank THEN Append(bcast_sent, own)
                            ELSE bcast_sent
           /\ nbcast' = [nbcast EXCEPT ![r] = @ + 1]
           /\ IF f = "res"
              THEN res' = [res EXCEPT ![r] = v] /\ UNCHANGED mf
              ELSE mf' = [mf EXCEPT ![r][f] = v] /\ UNCHANGED res
           /\ IF k < Len(order)
              THEN /\ rank_pc' = [rank_pc EXCEPT ![r] = order[k + 1]]
                   /\ UNCHANGED <<ret, calls>>
              ELSE /\ rank_pc' = [rank_pc EXCEPT ![r] = "idle"]
                   /\ ret' = [ret EXCEPT ![r] = res[r]]
                   /\ calls' = [calls EXCEPT ![r] = @ + 1]
    /\ UNCHANGED <<mpi_rank, arrived, scf_runs, scf_out>>
    /\ UNCHANGED <<cptVars, clsVars, lblVars>>

\* scf_with_mpi(mpi, mf, mpi_rank) has been called on every rank with the
\* same mpi_rank and a mean-field object of the same class.
InitMpi ==
    /\ mpi_rank \in Ranks
    /\ \E with_df \in BOOLEAN : mf = [r \in Ranks |-> MfNew(with_df)]
    /\ rank_pc = [r \in Ranks |-> "idle"]
    /\ res = [r \in Ranks |-> None]
    /\ ret = [r \in Ranks |-> None]
    /\ arrived = [r \in Ranks |-> 0]
    /\ bcast_sent = <<>>
    /\ nbcast = [r \in Ranks |-> 0]
    /\ calls = [r \in Ranks |-> 0]
    /\ scf_runs = [r \in Ranks |-> 0]
    /\ scf_out = <<>>

\* As InitMpi, but hasattr(self, 'with_df') is each rank's own: the
\* mean-field objects need not be of the same class on every rank.
InitMpiAnyDf ==
    /\ mpi_rank \in Ranks
    /\ \E with_df \in [Ranks -> BOOLEAN] : mf = [r \in Ranks |-> MfNew(with_df[r])]
    /\ rank_pc = [r \in Ranks |-> "idle"]
    /\ res = [r \in Ranks |-> None]
    /\ ret = [r \in Ranks |-> None]
    /\ arrived = [r \in Ranks |-> 0]
    /\ bcast_sent = <<>>
    /\ nbcast = [r \in Ranks |-> 0]
    /\ calls = [r \in Ranks |-> 0]
    /\ scf_runs = [r \in Ranks |-> 0]
    /\ scf_out = <<>>

\* No rank takes part: the state of the other specifications.
MpiOff ==
    /\ mpi_rank = 0
    /\ mf = [r \in Ranks |-> MfNew(FALSE)]
    /\ rank_pc = [r \in Ranks |-> "off"]
    /\ res = [r \in Ranks |-> None]
    /\ ret = [r \in Ranks |-> None]
    /\ arrived = [r \in Ranks |-> 0]
    /\ bcast_sent = <<>>
    /\ nbcast = [r \in Ranks |-> 0]
    /\ calls = [r \in Ranks |-> 0]
    /\ scf_runs = [r \in Ranks |-> 0]
    /\ scf_out = <<>>

NextMpi ==
    \E r \in Ranks :
        \/ MpiKernelEnter(r)
        \/ MpiBarrier(r)
        \/ MpiBcast(r)

-----------------------------------------------------------------------------
(* get_solver_class *)

\* A solver name is a string: a sequence of characters.
CCSD == <<"C", "C", "S", "D">>
CCSD_T == <<"C", "C", "S", "D", "(", "T", ")">>
TCCSD == <<"T", "C", "C", "S", "D">>
FCI == <<"F", "C", "I">>
EBFCI == <<"E", "B", "F", "C", "I">>

\* Names that are none of the above in any case.
OtherNames ==
    {<<>>, <<"M", "P", "2">>, <<"C", "I", "S", "D">>, <<"C", "C", "S", "D", "T">>,
     <<"C", "C", "S", "D", "(", "T">>, <<"F", "C", "I", " ">>, <<"B", "F", "C", "I">>,
     <<"C", "C", "S">>, <<"E", "B", "C", "C", "S", "D">>}

\* str.lower and str.upper, character by character
ToLower ==
    [ch \in {"B", "C", "D", "E", "F", "I", "M", "P", "S", "T"} |->
        CASE ch = "B" -> "b" [] ch = "C" -> "c" [] ch = "D" -> "d"
          [] ch = "E" -> "e" [] ch = "F" -> "f" [] ch = "I" -> "i"
          [] ch = "M" -> "m" [] ch = "P" -> "p" [] ch = "S" -> "s"
          [] ch = "T" -> "t"]

UpperChar(ch) ==
    IF \E u \in DOMAIN ToLower : ToLower[u] = ch
    THEN CHOOSE u \in DOMAIN ToLower : ToLower[u] = ch
    ELSE ch

\* solver.upper()
UpperMut(name) == name
Upper(name) == [i \in 1..Len(name) |-> UpperChar(name[i])]

\* The name with the characters at the positions of low in lower case.
Cased(name, low) ==
    [i \in 1..Len(name) |->
        IF i \in low /\ name[i] \in DOMAIN ToLower THEN ToLower[name[i]]
        ELSE name[i]]

\* The names get_solver_class is called with: every spelling, in upper and
\* lower case letters, of the solver names and of the other names.
SolverNames ==
    {Cased(name, low) :
        name \in {CCSD, CCSD_T, TCCSD, FCI, EBFCI} \cup OtherNames,
        low \in SUBSET (1..Len(CCSD_T))}

\* get_solver_class(solver): the class returned, or None when it raises
\* NotImplementedError.
get_solver_class(name) ==
    IF Upper(name) \in {CCSD, CCSD_T, TCCSD} THEN Some("CCSDSolver")
    ELSE IF Upper(name) = FCI THEN Some("FCISolver")
    ELSE IF Upper(name) = EBFCI THEN Some("EBFCISolver")
    ELSE None

GetSolverClass ==
    /\ cls_pc = "call"
    /\ solver_class' = get_solver_class(solver)
    /\ cls_pc' = IF get_solver_class(solver) = None
                 THEN "NotImplementedError" ELSE "returned"
    /\ UNCHANGED solver
    /\ UNCHANGED <<cptVars, mpiVars, lblVars>>

InitCls ==
    /\ solver \in SolverNames
    /\ cls_pc = "call"
    /\ solver_class = None

ClsOff ==
    /\ solver = <<>>
    /\ cls_pc = "off"
    /\ solver_class = None

NextCls == GetSolverClass

-----------------------------------------------------------------------------
(* IAO_Fragmentation.get_labels *)

\* mol and refmol have 1..MaxAtoms atoms each
MaxAtoms == 2
\* atoms lie at 0..MaxCoord on the x axis, in units of allclose's atol
MaxCoord == 2
\* refmol has 1..MaxIAO IAOs
MaxIAO == 2

\* np.allclose(a, b) with its defaults rtol=1e-5, atol=1e-8, in units of
\* atol: |a - b| <= atol + rtol*|b| for every component.
AtolUnits == 1
RtolInverse == 100000
AllClose(a, b) ==
    \A k \in 1..Len(a) :
        Abs(a[k] - b[k]) * RtolInverse <= AtolUnits * RtolInverse + Abs(b[k])

Coords == {<<x, 0, 0>> : x \in 0..MaxCoord}

AtomLists == UNION {[1..n -> Coords] : n \in 1..MaxAtoms}

\* refmol.ao_labels(None) for natm atoms: (atom-id, symbol, nl, m) per IAO.
\* The m field numbers the IAOs, so that no two labels are alike.
LabelLists(natm) ==
    UNION {{[i \in 1..n |-> <<ids[i], "X", "1s", i>>] : ids \in [1..n -> 0..(natm - 1)]}
             : n \in 1..MaxIAO}

\* The atoms of mol, as indices of range(self.mol.natm), whose coordinates
\* np.allclose finds equal to ref_coords.
MatchingAtoms(mol, refc) ==
    {atm \in 0..(Len(mol) - 1) : AllClose(mol[atm + 1], refc)}

Min(S) == CHOOSE x \in S : \A y \in S : x <= y
Max(S) == CHOOSE x \in S : \A y \in S : y <= x

\* The inner for loop with its break: the first matching atom.
FirstMatchMut(mol, refc) == Max(MatchingAtoms(mol, refc))
FirstMatch(mol, refc) == Min(MatchingAtoms(mol, refc))

\* get_labels: the labels returned, or None when it raises RuntimeError.
get_labels(mol, ref, labels) ==
    IF Len(ref) = Len(mol) THEN Some(labels)
    ELSE IF \E refatm \in 1..Len(ref) : MatchingAtoms(mol, ref[refatm]) = {}
    THEN None
    ELSE LET ref2mol == [refatm \in 1..Len(ref) |-> FirstMatch(mol, ref[refatm])]
         IN  Some([i \in 1..Len(labels) |->
                    <<ref2mol[labels[i][1] + 1], labels[i][2], labels[i][3],
                      labels[i][4]>>])

GetLabels ==
    /\ lbl_pc = "call"
    /\ iao_labels' = get_labels(mol_coords, ref_coords, iao_labels_refmol)
    /\ lbl_pc' = IF get_labels(mol_coords, ref_coords, iao_labels_refmol) = None
                 THEN "RuntimeError" ELSE "returned"
    /\ UNCHANGED <<mol_coords, ref_coords, iao_labels_refmol>>
    /\ UNCHANGED <<cptVars, mpiVars, clsVars>>

InitLbl ==
    /\ mol_coords \in AtomLists
    /\ ref_coords \in AtomLists
    /\ iao_labels_refmol \in LabelLists(Len(ref_coords))
    /\ lbl_pc = "call"
    /\ iao_labels = None

LblOff ==
    /\ mol_coords = <<>>
    /\ ref_coords = <<>>
    /\ iao_labels_refmol = <<>>
    /\ lbl_pc = "off"
    /\ iao_labels = None

NextLbl == GetLabels

-----------------------------------------------------------------------------
(* Specifications *)

\* optimize_cpt has replaced the kernel, and the kernel is called.
InitCpt ==
    /\ pc = "start"
    /\ nelectron \in 1..MaxNelectron
    /\ cpt_guess \in {g * Unit : g \in (-MaxCptGuess)..MaxCptGuess}
    /\ cpt_radius \in {r * Unit : r \in 1..MaxRadius}
    /\ atol \in TolValues
    /\ rtol \in TolValues
    /\ eris_arg \in {None, Some(<<"passed", 0>>)}
    /\ result = None /\ err = None /\ cpt_opt = None /\ err0 = None
    /\ init_guess = None
    /\ eris = None /\ bounds = <<0, 0>> /\ ntry = 0
    /\ converged = FALSE /\ results = None /\ ne_frag = None /\ v_ext_cpt = 0
    /\ brent = BrentIdle
    /\ outcome = "running" /\ retval = None
    /\ n_get_eris = 0 /\ eris_runs = {} /\ runs0 = {}
    /\ shortcut = FALSE /\ failure = "none"

\* No kernel call is made: the state of the other specifications.
CptOff ==
    /\ pc = "off"
    /\ nelectron = 1 /\ cpt_guess = 0 /\ cpt_radius = Unit
    /\ atol = 0 /\ rtol = 0 /\ eris_arg = None
    /\ result = None /\ err = None /\ cpt_opt = None /\ err0 = None
    /\ init_guess = None
    /\ eris = None /\ bounds = <<0, 0>> /\ ntry = 0
    /\ converged = FALSE /\ results = None /\ ne_frag = None /\ v_ext_cpt = 0
    /\ brent = BrentIdle
    /\ outcome = "running" /\ retval = None
    /\ n_get_eris = 0 /\ eris_runs = {} /\ runs0 = {}
    /\ shortcut = FALSE /\ failure = "none"

\* One call of the kernel installed by optimize_cpt.
Init == InitCpt /\ MpiOff /\ ClsOff /\ LblOff

Next ==
    \/ KernelFirstRun
    \/ BrentqFa
    \/ BrentqFb
    \/ BrentqConverged
    \/ BrentqMaxIter
    \/ BrentqStep

Spec == Init /\ [][Next]_vars

\* Calls of the wrapped SCF kernel on every rank.
MpiStart == CptOff /\ InitMpi /\ ClsOff /\ LblOff

SpecMpi == MpiStart /\ [][NextMpi]_vars

\* The same calls with each rank's own with_df. Every rank is a process of
\* its own that keeps running: it makes its calls, its SCF run ends, and a
\* collective it can leave it does leave.
MpiStartAnyDf == CptOff /\ InitMpiAnyDf /\ ClsOff /\ LblOff

RankStep(r) == MpiKernelEnter(r) \/ MpiBarrier(r) \/ MpiBcast(r)

FairSpecMpi ==
    /\ MpiStartAnyDf
    /\ [][NextMpi]_vars
    /\ \A r \in Ranks : WF_vars(RankStep(r))

\* One call of get_solver_class.
ClsStart == CptOff /\ MpiOff /\ InitCls /\ LblOff

SpecCls == ClsStart /\ [][NextCls]_vars

\* One call of get_labels.
LblStart == CptOff /\ MpiOff /\ ClsOff /\ InitLbl

SpecLbl == LblStart /\ [][NextLbl]_vars

-----------------------------------------------------------------------------
(* Claims about the kernel installed by optimize_cpt *)

Raised == {"ConvergenceError", "RuntimeError_converged", "RuntimeError_brentq",
           "RuntimeError_interval"}

\* C1: the kernel returns normally only if the most recent solver run
\* converged and its ne_frag satisfies |ne_frag - nelectron| < atol +
\* rtol*nelectron; a call that ends in any other way ends by raising.
C1_ReturnOnlyWithinTolerance ==
    /\ pc = "done" => outcome \in Raised \cup {"return"}
    /\ pc # "done" => outcome = "running"
    /\ outcome = "return" =>
          /\ converged
          /\ ~shortcut
          /\ ne_frag # None
          /\ results = Some([cpt |-> v_ext_cpt, converged |-> TRUE])
          /\ Abs(Val(ne_frag) - nelectron) < atol + rtol * nelectron

\* The root search, after a failed attempt, finds the chemical potential.
C1_Witness ==
    /\ outcome = "return"
    /\ ntry >= 1
    /\ cpt_opt # None /\ Val(cpt_opt) # cpt_guess

\* C2: a call that completes without raising returns the results object of
\* the solver run whose electron error met the tolerance.
C2_ReturnsSolverResults ==
    outcome = "return" => retval = results

\* C7: when electron_err returns the stored error without running the
\* solver, that value is the electron error an earlier run computed at the
\* chemical potential 0.
C7_ShortcutReturnsErrorAtZero ==
    shortcut => Val(err0) \in runs0

\* C8: get_eris is called once if eris is not passed and never if it is
\* passed, and every solver run of the call receives the same eris object.
C8_ErisComputedOnce ==
    /\ n_get_eris <= 1
    /\ eris_arg # None => n_get_eris = 0 /\ eris_runs \subseteq {eris_arg}
    /\ (eris_arg = None /\ pc # "start") => n_get_eris = 1
    /\ pc # "start" => eris # None /\ eris_runs = {eris}

\* Several attempts were made and every run got the integrals computed once.
C8_Witness ==
    /\ pc = "done"
    /\ ntry >= 2
    /\ eris_arg = None
    /\ n_get_eris = 1
    /\ eris_runs = {Some(<<"computed", 1>>)}

\* An upper bound on the steps (solver runs and brentq exits) a kernel call
\* in this state can still take, for 5 attempts of BrentMaxIter iterations.
StepsLeft ==
    CASE pc = "done" -> 0
      [] pc = "start" -> 1 + 5 * (BrentMaxIter + 3)
      [] pc = "brent_a" -> (5 - ntry) * (BrentMaxIter + 3)
      [] pc = "brent_b" -> (5 - ntry) * (BrentMaxIter + 3) - 1
      [] pc = "brent_iter" -> (5 - ntry) * (BrentMaxIter + 3) - 2 - brent.iter

\* C9: a kernel call makes at most 5 brentq attempts and ends, every solver
\* run ending: each step lowers the bound StepsLeft and only a finished call
\* has no next step. When the first run is not within tolerance and 5
\* attempts end with a bracket without sign change or a non-converged
\* solver, the call raises the RuntimeError "Could not find chemical
\* potential within interval" and returns nothing.
C9_AtMostFiveAttempts ==
    /\ [](/\ ntry <= 5
          /\ pc # "done" => ntry < 5
          /\ ntry = 5 => outcome = "RuntimeError_interval" /\ retval = None
          /\ outcome = "RuntimeError_interval" => ntry = 5
          /\ StepsLeft >= 0
          /\ pc # "done" => ENABLED Next)
    /\ [][StepsLeft' < StepsLeft]_vars

\* Five attempts failed, for both reasons, and the call raised.
C9_Witness ==
    /\ pc = "done"
    /\ ntry = 5
    /\ outcome = "RuntimeError_interval"
    /\ failure = "ValueError"
    /\ bounds[2] - bounds[1] < 2 * cpt_radius

\* C10: when an attempt fails with ValueError, the interval of the next
\* attempt contains the previous interval.
C10_NewIntervalContainsPrevious ==
    [][(ntry' = ntry + 1 /\ failure' = "ValueError")
         => (bounds'[1] <= bounds[1] /\ bounds[2] <= bounds'[2])]_vars

-----------------------------------------------------------------------------
(* Claims about scf_with_mpi *)

\* C3: each call of the wrapped kernel runs the original SCF kernel exactly
\* once on the rank equal to mpi_rank and never on any other rank.
C3_ScfOnlyOnRoot ==
    \A r \in Ranks :
        scf_runs[r] = IF r = mpi_rank
                      THEN calls[r] + (IF rank_pc[r] \in {"idle", "off"} THEN 0 ELSE 1)
                      ELSE 0

\* Every rank has completed two calls; the root made two SCF runs.
C3_Witness ==
    /\ \A r \in Ranks : rank_pc[r] = "idle" /\ calls[r] = 2
    /\ scf_runs[mpi_rank] = 2
    /\ mpi_rank # 0

\* Broadcasts that rank r has completed in the call it is in.
BcastsInCall(r) == nbcast[r] - calls[r] * Len(BcastOrder(mf[r].with_df))

\* C4: a rank that has returned from its k-th call holds the converged,
\* e_tot, mo_energy, mo_occ, mo_coeff (and with_df._cderi, with with_df) that
\* the root held after its k-th SCF run, and has returned what the original
\* kernel returned on the root; no rank receives a value of a call before
\* the root has finished the SCF run of that call.
C4_RanksHoldRootResults ==
    \A r \in Ranks :
        /\ (rank_pc[r] = "idle" /\ calls[r] >= 1) =>
              /\ Len(scf_out) >= calls[r]
              /\ LET root == scf_out[calls[r]]
                 IN  /\ mf[r].converged = root.mf.converged
                     /\ mf[r].e_tot = root.mf.e_tot
                     /\ mf[r].mo_energy = root.mf.mo_energy
                     /\ mf[r].mo_occ = root.mf.mo_occ
                     /\ mf[r].mo_coeff = root.mf.mo_coeff
                     /\ mf[r].with_df => mf[r].cderi = root.mf.cderi
                     /\ ret[r] = root.res
        /\ (r # mpi_rank /\ BcastsInCall(r) >= 1) => Len(scf_out) >= calls[r] + 1

\* A rank other than the root has returned from its second call with the
\* results of the root's second SCF run, which differ from the first.
C4_Witness ==
    \E r \in Ranks :
        /\ r # mpi_rank
        /\ rank_pc[r] = "idle" /\ calls[r] = 2
        /\ mf[r].with_df
        /\ Len(scf_out) = 2
        /\ scf_out[1].mf.e_tot # scf_out[2].mf.e_tot
        /\ mf[r].cderi = scf_out[2].mf.cderi
        /\ ret[r] = scf_out[2].res

-----------------------------------------------------------------------------
(* Claims about get_solver_class *)

\* The letters of the solver names, in lower and upper case.
CasePairs ==
    {<<"b", "B">>, <<"c", "C">>, <<"d", "D">>, <<"e", "E">>, <<"f", "F">>,
     <<"i", "I">>, <<"m", "M">>, <<"p", "P">>, <<"s", "S">>, <<"t", "T">>}

SameIgnoringCase(a, b) ==
    /\ Len(a) = Len(b)
    /\ \A i \in 1..Len(a) :
          \/ a[i] = b[i]
          \/ <<a[i], b[i]>> \in CasePairs
          \/ <<b[i], a[i]>> \in CasePairs

\* C5: the class is selected by the name whatever its case: CCSD, CCSD(T)
\* and TCCSD give CCSDSolver, FCI gives FCISolver, EBFCI gives EBFCISolver,
\* and every other name raises NotImplementedError and returns no class.
C5_SolverClassByName ==
    cls_pc \in {"returned", "NotImplementedError"} =>
        IF \E n \in {CCSD, CCSD_T, TCCSD} : SameIgnoringCase(solver, n)
        THEN cls_pc = "returned" /\ solver_class = Some("CCSDSolver")
        ELSE IF SameIgnoringCase(solver, FCI)
        THEN cls_pc = "returned" /\ solver_class = Some("FCISolver")
        ELSE IF SameIgnoringCase(solver, EBFCI)
        THEN cls_pc = "returned" /\ solver_class = Some("EBFCISolver")
        ELSE cls_pc = "NotImplementedError" /\ solver_class = None

\* A name in mixed case has given its class.
C5_Witness ==
    /\ cls_pc = "returned"
    /\ solver = <<"e", "B", "f", "c", "I">>
    /\ solver_class = Some("EBFCISolver")

-----------------------------------------------------------------------------
(* Claims about get_labels *)

\* C6: get_labels returns one label per IAO of refmol, in the same order:
\* unchanged when refmol has as many atoms as mol; otherwise with the atom id
\* replaced by the index of the first atom of mol whose coordinates match the
\* reference atom's, the other three fields unchanged; and it raises
\* RuntimeError if some reference atom matches no atom of mol.
C6_LabelsOfRefmol ==
    lbl_pc \in {"returned", "RuntimeError"} =>
        LET natm == Len(mol_coords)
            close(atm, refatm) == AllClose(mol_coords[atm + 1], ref_coords[refatm + 1])
        IN  IF Len(ref_coords) = natm
            THEN lbl_pc = "returned" /\ iao_labels = Some(iao_labels_refmol)
            ELSE IF \E refatm \in 0..(Len(ref_coords) - 1) :
                       \A atm \in 0..(natm - 1) : ~close(atm, refatm)
            THEN lbl_pc = "RuntimeError" /\ iao_labels = None
            ELSE /\ lbl_pc = "returned"
                 /\ iao_labels # None
                 /\ Len(Val(iao_labels)) = Len(iao_labels_refmol)
                 /\ \A i \in 1..Len(iao_labels_refmol) :
                       LET old == iao_labels_refmol[i]
                           new == Val(iao_labels)[i]
                       IN  /\ new[1] \in 0..(natm - 1)
                           /\ close(new[1], old[1])
                           /\ \A atm \in 0..(new[1] - 1) : ~close(atm, old[1])
                           /\ new[2] = old[2] /\ new[3] = old[3] /\ new[4] = old[4]

\* With a ghost atom removed in refmol, a label's atom id has been corrected.
C6_Witness ==
    /\ lbl_pc = "returned"
    /\ Len(ref_coords) < Len(mol_coords)
    /\ \E i \in 1..Len(iao_labels_refmol) :
          Val(iao_labels)[i][1] # iao_labels_refmol[i][1]

-----------------------------------------------------------------------------
(* Claims about the collectives of scf_with_mpi *)

\* The broadcasts of one call in the order of the claim.
ClaimedBcasts(with_df) ==
    <<"res">> \o (IF with_df THEN <<"cderi">> ELSE <<>>)
      \o <<"converged", "e_tot", "mo_energy", "mo_occ", "mo_coeff">>

AllAgreeOnWithDf == \A r, q \in Ranks : mf[r].with_df = mf[q].with_df

AllCallsDone == \A r \in Ranks : rank_pc[r] = "idle" /\ calls[r] = MaxCalls

\* The steps rank r still has to take: per call the entry up to the barrier,
\* the barrier's return, and one step per broadcast.
RankStepsLeft(r) ==
    LET n == Len(ClaimedBcasts(mf[r].with_df))
    IN  (MaxCalls - calls[r]) * (n + 2)
          - (CASE rank_pc[r] = "idle" -> 0
               [] rank_pc[r] = "barrier" -> 1
               [] OTHER -> 2 + nbcast[r] - calls[r] * n)

\* C11: in every call each rank enters one barrier, then broadcasts res,
\* with_df._cderi if it has with_df, converged, e_tot, mo_energy, mo_occ and
\* mo_coeff in that order, only the rank mpi_rank sending, and returns after
\* the last one; if all ranks agree on with_df, every call made on all ranks
\* completes on every rank and no rank stays in a collective forever: every
\* step takes one of the steps a rank has left, and as long as some rank
\* has not returned from its last call some rank can take a step.
C11_SameCollectivesAndCompletion ==
    /\ [][\A r \in Ranks :
            LET seq == ClaimedBcasts(mf[r].with_df)
                k == nbcast[r] - calls[r] * Len(seq)
            IN  /\ arrived'[r] # arrived[r] =>
                      /\ arrived'[r] = arrived[r] + 1
                      /\ rank_pc[r] = "idle" /\ arrived[r] = calls[r]
                /\ nbcast'[r] # nbcast[r] =>
                      /\ nbcast'[r] = nbcast[r] + 1
                      /\ arrived[r] = calls[r] + 1
                      /\ \A q \in Ranks : arrived[q] >= arrived[r]
                      /\ k + 1 <= Len(seq) /\ rank_pc[r] = seq[k + 1]
                      /\ (r = mpi_rank) = (bcast_sent' # bcast_sent)
                /\ calls'[r] # calls[r] =>
                      /\ calls'[r] = calls[r] + 1
                      /\ nbcast'[r] = calls'[r] * Len(seq)]_vars
    /\ [][/\ \A r \in Ranks : RankStepsLeft(r)' <= RankStepsLeft(r)
          /\ \E r \in Ranks : RankStepsLeft(r)' < RankStepsLeft(r)]_vars
    /\ [](/\ \A r \in Ranks : RankStepsLeft(r) >= 0
          /\ AllCallsDone <=> \A r \in Ranks : RankStepsLeft(r) = 0
          /\ (AllAgreeOnWithDf /\ ~AllCallsDone) => ENABLED NextMpi)

\* All ranks, with with_df, have gone through the collectives of two calls.
C11_Witness ==
    /\ AllCallsDone
    /\ \A r \in Ranks : mf[r].with_df /\ arrived[r] = 2 /\ nbcast[r] = 14
    /\ Len(bcast_sent) = 14

\* Without the agreement on with_df the calls need not complete: under the
\* fairness of FairSpecMpi this fails.
C11_CompletionWithoutAgreement == <>AllCallsDone

\* With the agreement they do, under the fairness of FairSpecMpi.
C11_CompletionWithAgreement == AllAgreeOnWithDf => <>AllCallsDone

====
